---- MODULE Spec2Model ----
(***************************************************************************)
(* A model of src/Game_of_life3d.py: class GameOfLife, a three-dimensional *)
(* Game of Life on a bounded lattice (survive on 9 neighbours, born on 4), *)
(* the list of generations it records, and the colour map simulate()       *)
(* derives from that list.                                                 *)
(*                                                                         *)
(* A NumPy array is a record [shape, data]; data maps every index triple   *)
(* <<z, y, x>> of the shape to 0 or 1.  Arrays are objects: heap[g] is the *)
(* sequence of arrays allocated for game g, and grid[g] and the entries of *)
(* prev_generations[g] are references (positions in heap[g]), so that an   *)
(* assignment shares an array and a write through one reference is seen    *)
(* through every other.                                                    *)
(***************************************************************************)
EXTENDS Integers, Sequences, FiniteSets

VARIABLES heap, grid, prev_generations, calculation_time, ret,
          color_map, generation_i, displayed

vars == <<heap, grid, prev_generations, calculation_time, ret,
          color_map, generation_i, displayed>>

(* ------------------------------ bounds --------------------------------- *)

\* step() calls per game
MaxSteps == 2

\* largest time.monotonic() difference one step() measures, in clock ticks
MaxElapsed == 1

\* dead cells in a seed grid of the 3 x 3 x 3 lattice
MaxHoles == 1

\* recorded generations handed to simulate()
MaxGen == 12

(* ------------------------------ arrays --------------------------------- *)

\* two GameOfLife objects, built from equal seed grids
Games == {1, 2}

\* the lattices of the model; the program's own is 10 x 10 x 10
SmallShape == <<2, 2, 3>>

CubeShape == <<3, 3, 3>>

QueryShapes == {<<2, 2, 2>>, <<1, 2, 3>>}

ZeroShapes == {<<0, 2, 3>>, <<2, 0, 3>>, <<2, 2, 0>>}

\* the lattice simulate() is run on: one coordinate of a recorded history
ColorShape == <<1, 1, 1>>

\* np.ndindex(shape): every index triple of an array of that shape
Indices(shape) ==
    (0 .. shape[1] - 1) \X (0 .. shape[2] - 1) \X (0 .. shape[3] - 1)

\* np.zeros(shape, dtype='bool')
Zeros(shape) == [shape |-> shape, data |-> [p \in Indices(shape) |-> 0]]

\* every boolean array of a shape
Arrays(shape) ==
    {[shape |-> shape, data |-> d] : d \in [Indices(shape) -> {0, 1}]}

\* the subsets of S with at most n elements
RECURSIVE SmallSubsets(_, _)
SmallSubsets(S, n) ==
    IF n = 0 THEN {{}}
    ELSE LET fewer == SmallSubsets(S, n - 1)
         IN  fewer \cup {h \cup {p} : h \in fewer, p \in S}

\* boolean arrays of a shape with at most n dead cells
DenseArrays(shape, n) ==
    {[shape |-> shape, data |-> [p \in Indices(shape) |-> IF p \in dead THEN 0 ELSE 1]] :
        dead \in SmallSubsets(Indices(shape), n)}

\* boolean arrays of a shape whose alive cells all have z = 0
LayerArrays(shape) == {a \in Arrays(shape) : \A p \in Indices(shape) : p[1] > 0 => a.data[p] = 0}

\* generate_grid: the grids a game is constructed from
SeedGrids ==
    Arrays(SmallShape) \cup DenseArrays(CubeShape, MaxHoles)
        \cup UNION {Arrays(s) : s \in ZeroShapes}

\* the grids the neighbour count is queried on
QueryGrids ==
    UNION {Arrays(s) : s \in QueryShapes \cup ZeroShapes}
        \cup DenseArrays(CubeShape, MaxHoles)

\* the grids two games are built from
PairGrids ==
    DenseArrays(SmallShape, MaxHoles + 1) \cup LayerArrays(SmallShape)
        \cup UNION {Arrays(s) : s \in ZeroShapes}

\* the array self.grid refers to
Grid(g) == heap[g][grid[g]]

\* the k-th recorded generation of game g
Generation(g, k) == heap[g][prev_generations[g][k]]

(* ------------------------ n_surrounding_cells -------------------------- *)

\* np.clip of one number
Clip(v, a_min, a_max) ==
    IF v < a_min THEN a_min ELSE IF v > a_max THEN a_max ELSE v

\* whether NumPy accepts integer i as an index into an axis of length n
IndexOk(i, n) == -n <= i /\ i < n

\* the position integer index i reads on an axis of length n: negative
\* indices count from the end
NpIndex(i, n) == IF i < 0 THEN i + n ELSE i

\* a[z, y, x] for an index triple NumPy accepts
Item(a, z, y, x) ==
    a.data[<<NpIndex(z, a.shape[1]), NpIndex(y, a.shape[2]), NpIndex(x, a.shape[3])>>]

RECURSIVE SumX(_, _, _, _, _)
SumX(a, z, y, x, x_hi) ==
    IF x >= x_hi THEN 0 ELSE a.data[<<z, y, x>>] + SumX(a, z, y, x + 1, x_hi)

RECURSIVE SumY(_, _, _, _, _, _)
SumY(a, z, y, y_hi, x_lo, x_hi) ==
    IF y >= y_hi THEN 0
    ELSE SumX(a, z, y, x_lo, x_hi) + SumY(a, z, y + 1, y_hi, x_lo, x_hi)

RECURSIVE SumZ(_, _, _, _, _, _, _)
SumZ(a, z, z_hi, y_lo, y_hi, x_lo, x_hi) ==
    IF z >= z_hi THEN 0
    ELSE SumY(a, z, y_lo, y_hi, x_lo, x_hi)
            + SumZ(a, z + 1, z_hi, y_lo, y_hi, x_lo, x_hi)

\* np.sum(a[zb[1]:zb[2], yb[1]:yb[2], xb[1]:xb[2]]) for bounds within the axes
SliceSum(a, zb, yb, xb) == SumZ(a, zb[1], zb[2], yb[1], yb[2], xb[1], xb[2])

\* Bounds with the last index, not the length, as the upper clip
BoundsOffByOne(c, n) ==
    <<Clip(c - 1, 0, n), IF n = 0 THEN 0 ELSE Clip(c + 2, 0, n - 1)>>

\* the clipped bounds of the block around coordinate c on an axis of length n
Bounds(c, n) == <<Clip(c - 1, 0, n), Clip(c + 2, 0, n)>>

\* whether n_surrounding_cells(z, y, x) raises IndexError on array a
Raises(a, z, y, x) ==
    ~(IndexOk(z, a.shape[1]) /\ IndexOk(y, a.shape[2]) /\ IndexOk(x, a.shape[3]))

\* n_surrounding_cells without the removal of the cell itself
n_surrounding_cells_with_self(a, z, y, x) ==
    SliceSum(a, Bounds(z, a.shape[1]), Bounds(y, a.shape[2]), Bounds(x, a.shape[3]))

\* the value n_surrounding_cells(z, y, x) returns on array a when it returns
n_surrounding_cells(a, z, y, x) ==
    LET total == SliceSum(a, Bounds(z, a.shape[1]), Bounds(y, a.shape[2]),
                          Bounds(x, a.shape[3]))
    IN  IF Item(a, z, y, x) = 1 THEN total - 1 ELSE total

(* -------------------------------- step --------------------------------- *)

\* NextCell with survival on at least 9 neighbours
NextCellAtLeast(a, p) ==
    IF a.data[p] = 1 /\ n_surrounding_cells(a, p[1], p[2], p[3]) >= 9 THEN 1
    ELSE IF a.data[p] = 0 /\ n_surrounding_cells(a, p[1], p[2], p[3]) = 4 THEN 1
    ELSE 0

\* the value step() writes to next_generation[z, y, x]
NextCell(a, p) ==
    IF a.data[p] = 1 /\ n_surrounding_cells(a, p[1], p[2], p[3]) = 9 THEN 1
    ELSE IF a.data[p] = 0 /\ n_surrounding_cells(a, p[1], p[2], p[3]) = 4 THEN 1
    ELSE 0

\* next_generation when the loop of step() ends
NextGeneration(a) ==
    [shape |-> a.shape, data |-> [p \in Indices(a.shape) |-> NextCell(a, p)]]

Returned(op) == [op |-> op, args |-> <<>>, exc |-> "None", val |-> 0]

\* step() with next_generation bound to self.grid instead of a new array:
\* the grid is overwritten and appended again
StepInPlace(g) ==
    /\ Len(prev_generations[g]) < MaxSteps
    /\ heap' = [heap EXCEPT ![g][grid[g]] = NextGeneration(Grid(g))]
    /\ grid' = grid
    /\ prev_generations' =
           [prev_generations EXCEPT ![g] = Append(prev_generations[g], grid[g])]
    /\ \E elapsed \in 0 .. MaxElapsed :
           calculation_time' =
               [calculation_time EXCEPT ![g] = calculation_time[g] + elapsed]
    /\ ret' = Returned("step")
    /\ UNCHANGED <<color_map, generation_i, displayed>>

\* step() appending the grid it replaces instead of the one it computed
StepArchiveOld(g) ==
    /\ Len(prev_generations[g]) < MaxSteps
    /\ heap' = [heap EXCEPT ![g] = Append(heap[g], NextGeneration(Grid(g)))]
    /\ grid' = [grid EXCEPT ![g] = Len(heap[g]) + 1]
    /\ prev_generations' =
           [prev_generations EXCEPT ![g] = Append(prev_generations[g], grid[g])]
    /\ \E elapsed \in 0 .. MaxElapsed :
           calculation_time' =
               [calculation_time EXCEPT ![g] = calculation_time[g] + elapsed]
    /\ ret' = Returned("step")
    /\ UNCHANGED <<color_map, generation_i, displayed>>

\* step() on a buffer from np.empty with the final else branch left out:
\* a cell no rule sets keeps what the buffer held, all zeros or all ones
StepUninitialised(g) ==
    /\ Len(prev_generations[g]) < MaxSteps
    /\ \E stale \in {0, 1} :
           heap' = [heap EXCEPT ![g] = Append(heap[g],
                       [shape |-> Grid(g).shape,
                        data |-> [p \in Indices(Grid(g).shape) |->
                                     IF NextCell(Grid(g), p) = 1 THEN 1 ELSE stale]])]
    /\ grid' = [grid EXCEPT ![g] = Len(heap[g]) + 1]
    /\ prev_generations' =
           [prev_generations EXCEPT ![g] = Append(prev_generations[g], Len(heap[g]) + 1)]
    /\ \E elapsed \in 0 .. MaxElapsed :
           calculation_time' =
               [calculation_time EXCEPT ![g] = calculation_time[g] + elapsed]
    /\ ret' = Returned("step")
    /\ UNCHANGED <<color_map, generation_i, displayed>>

\* game g runs step(): a new array is allocated, filled from self.grid,
\* made the grid and appended to prev_generations
Step(g) ==
    /\ Len(prev_generations[g]) < MaxSteps
    /\ heap' = [heap EXCEPT ![g] = Append(heap[g], NextGeneration(Grid(g)))]
    /\ grid' = [grid EXCEPT ![g] = Len(heap[g]) + 1]
    /\ prev_generations' =
           [prev_generations EXCEPT ![g] = Append(prev_generations[g], Len(heap[g]) + 1)]
    /\ \E elapsed \in 0 .. MaxElapsed :
           calculation_time' =
               [calculation_time EXCEPT ![g] = calculation_time[g] + elapsed]
    /\ ret' = Returned("step")
    /\ UNCHANGED <<color_map, generation_i, displayed>>

(* ------------------------------ simulate ------------------------------ *)

\* A float64 is a record [tenths, ulps] standing for the number
\* tenths * fl(0.1) + ulps * 2^-56, where fl(0.1) = 7205759403792794 * 2^-56
\* is the float64 the literal 0.1 denotes.  Every value the colour map
\* holds is such a number with a small ulps.

\* fl(0.1) / 2^-56 modulo 16
TenthMod16 == 10

Zero == [tenths |-> 0, ulps |-> 0]

\* 1.0 = 2^56 * 2^-56 = 10 * fl(0.1) - 4 * 2^-56
One == [tenths |-> 10, ulps |-> -4]

Negative(x) == x.tenths < 0 \/ (x.tenths = 0 /\ x.ulps < 0)

Less(x, y) == x.tenths < y.tenths \/ (x.tenths = y.tenths /\ x.ulps < y.ulps)

\* the spacing, in units of 2^-56, of the float64s around a number of
\* t tenths, 1 <= t <= 9
Spacing(t, b) ==
    IF t = 1 THEN 1
    ELSE IF t = 2 THEN 2
    ELSE IF t <= 4 \/ (t = 5 /\ b < -2) THEN 4
    ELSE 8

\* x - 0.1 with exact decimals: no rounding
SubTenthExact(x) == [tenths |-> x.tenths - 1, ulps |-> 0]

\* x - 0.1 in float64: the exact difference rounded to the nearest
\* float64, a tie to the one with an even significand
SubTenth(x) ==
    LET t == x.tenths - 1
        b == x.ulps
        u == Spacing(t, b)
        m == (t * TenthMod16 + b) % 16
        r == m % u
        up == [tenths |-> t, ulps |-> b + u - r]
        down == [tenths |-> t, ulps |-> b - r]
    IN  IF t <= 0 THEN [tenths |-> t, ulps |-> b]
        ELSE IF 2 * r < u THEN down
        ELSE IF 2 * r > u THEN up
        ELSE IF ((m - r) \div u) % 2 = 0 THEN down
        ELSE up

\* max(x, 0)
MaxZero(x) == IF Negative(x) THEN Zero ELSE x

\* the loop body of simulate() with the two branches exchanged
SimulateCellSwapped(cell, color) ==
    IF cell = 0 THEN <<One, MaxZero(SubTenth(color[2])), Zero>>
    ELSE <<One, Zero, Zero>>

\* the colour simulate() stores for a coordinate holding cell in the
\* generation being shown, color being the colour stored before
SimulateCell(cell, color) ==
    IF cell = 0 THEN <<One, One, Zero>>
    ELSE <<One, MaxZero(SubTenth(color[2])), Zero>>

\* simulate() allocates the colour map, all zeros; the generations are
\* then shown from the first.  The map is 10 x 10 x 10 whatever the grid:
\* the entries outside the grid's shape are never written
SimulateStart(g) ==
    /\ generation_i = 0
    /\ color_map' = [p \in Indices(Grid(g).shape) |-> <<Zero, Zero, Zero>>]
    /\ generation_i' = 1
    /\ UNCHANGED <<heap, grid, prev_generations, calculation_time, ret, displayed>>

\* one round of the loop of simulate(): the colour of every coordinate is
\* updated from the next recorded generation, which is then displayed
SimulateGeneration(g) ==
    /\ generation_i >= 1
    /\ generation_i <= Len(prev_generations[g])
    /\ LET generation == Generation(g, generation_i)
           colors == [p \in Indices(Grid(g).shape) |->
                         SimulateCell(generation.data[p], color_map[p])]
       IN  /\ color_map' = colors
           /\ displayed' = Append(displayed,
                               [generation |-> generation, color_map |-> colors])
    /\ generation_i' = generation_i + 1
    /\ UNCHANGED <<heap, grid, prev_generations, calculation_time, ret>>

\* the coordinates a caller passes on an axis of length n: below -n, the
\* negative indices NumPy accepts, the axis itself, and n
QueryCoords(n) == -(n + 1) .. n

\* a caller asks game g for n_surrounding_cells(z, y, x).  The call changes
\* no field of the game, so one call from each state shows every result
Query(g, z, y, x) ==
    /\ ret.op # "n_surrounding_cells"
    /\ ret' = IF Raises(Grid(g), z, y, x)
              THEN [op |-> "n_surrounding_cells", args |-> <<z, y, x>>,
                    exc |-> "IndexError", val |-> 0]
              ELSE [op |-> "n_surrounding_cells", args |-> <<z, y, x>>,
                    exc |-> "None", val |-> n_surrounding_cells(Grid(g), z, y, x)]
    /\ UNCHANGED <<heap, grid, prev_generations, calculation_time,
                   color_map, generation_i, displayed>>

(* ---------------------------- construction ----------------------------- *)

\* both games after GameOfLife(seed), each with its own copy of the seed
InitFrom(seeds) ==
    /\ \E seed \in seeds : heap = [g \in Games |-> <<seed>>]
    /\ grid = [g \in Games |-> 1]
    /\ prev_generations = [g \in Games |-> <<>>]
    /\ calculation_time = [g \in Games |-> 0]
    /\ ret = Returned("__init__")
    /\ color_map = <<>>
    /\ generation_i = 0
    /\ displayed = <<>>

Init == InitFrom(SeedGrids)

InitQuery == InitFrom(QueryGrids)

InitPair == InitFrom(PairGrids)

\* a game that has recorded any generations of the one-cell lattice: what
\* simulate() does at a coordinate depends on that coordinate's cells only
InitColor ==
    /\ \E n \in 0 .. MaxGen :
           \E h \in [1 .. n -> Arrays(ColorShape)] :
               heap = [g \in Games |-> [k \in 1 .. n + 1 |->
                          IF k = 1 THEN Zeros(ColorShape) ELSE h[k - 1]]]
    /\ grid = [g \in Games |-> Len(heap[g])]
    /\ prev_generations = [g \in Games |-> [k \in 1 .. Len(heap[g]) - 1 |-> k + 1]]
    /\ calculation_time = [g \in Games |-> 0]
    /\ ret = Returned("step")
    /\ color_map = <<>>
    /\ generation_i = 0
    /\ displayed = <<>>

NextColor == SimulateStart(1) \/ SimulateGeneration(1)

SpecColor == InitColor /\ [][NextColor]_vars

\* one game stepped by its driver
Next == Step(1)

Spec == Init /\ [][Next]_vars

\* a caller querying the neighbour count of a freshly built game
NextQuery ==
    \E z \in QueryCoords(Grid(1).shape[1]), y \in QueryCoords(Grid(1).shape[2]),
       x \in QueryCoords(Grid(1).shape[3]) : Query(1, z, y, x)

SpecQuery == InitQuery /\ [][NextQuery]_vars

\* two games stepped independently
NextPair == \E g \in Games : Step(g)

SpecPair == InitPair /\ [][NextPair]_vars

(* ------------------------- neighbour counting -------------------------- *)

\* the in-lattice positions around p, p itself left out
NeighbourCells(shape, p) ==
    {q \in Indices(shape) :
        /\ q # p
        /\ \A i \in 1 .. 3 : q[i] - p[i] \in {-1, 0, 1}}

AliveNeighbours(a, p) == Cardinality({q \in NeighbourCells(a.shape, p) : a.data[q] = 1})

IsCorner(shape, p) == \A i \in 1 .. 3 : p[i] = 0 \/ p[i] = shape[i] - 1

OnBoundary(shape, p) == \E i \in 1 .. 3 : p[i] = 0 \/ p[i] = shape[i] - 1

AllAlive(a) == \A p \in Indices(a.shape) : a.data[p] = 1

QueryInRange == ret.op = "n_surrounding_cells" /\ ret.args \in Indices(Grid(1).shape)

QueryOutOfRange == ret.op = "n_surrounding_cells" /\ ret.args \notin Indices(Grid(1).shape)

\* C2: for an in-range coordinate n_surrounding_cells returns the number of
\* alive cells among the in-lattice positions within distance 1 on every
\* axis, the queried cell left out whether it is alive or dead; positions
\* outside the lattice are not counted
C2_NeighbourCount ==
    QueryInRange =>
        /\ ret.exc = "None"
        /\ ret.val = AliveNeighbours(Grid(1), ret.args)

C2_Witness ==
    /\ QueryInRange
    /\ OnBoundary(Grid(1).shape, ret.args)
    /\ Grid(1).data[ret.args] = 1
    /\ ret.val = 3

\* C6: n_surrounding_cells called with a coordinate outside the lattice, a
\* negative component included, fails with an out-of-bounds error and
\* returns no count
C6_OutOfRangeRaises == QueryOutOfRange => ret.exc = "IndexError"

\* C9: for an in-range coordinate the count lies between 0 and the number
\* of in-lattice neighbour positions: at most 26, and at most 7 at a corner
\* of a lattice whose dimensions are all at least 2
C9_CountRange ==
    QueryInRange =>
        /\ 0 <= ret.val
        /\ ret.val <= Cardinality(NeighbourCells(Grid(1).shape, ret.args))
        /\ ret.val <= 26
        /\ (IsCorner(Grid(1).shape, ret.args) /\ \A i \in 1 .. 3 : Grid(1).shape[i] >= 2)
               => ret.val <= 7

C9_Witness ==
    /\ QueryInRange
    /\ IsCorner(Grid(1).shape, ret.args)
    /\ \A i \in 1 .. 3 : Grid(1).shape[i] >= 2
    /\ AllAlive(Grid(1))
    /\ ret.val = 7

(* ------------------------------ stepping ------------------------------- *)

\* the fields of game g
Fields(g) == <<heap[g], grid[g], prev_generations[g], calculation_time[g]>>

\* the grid game g held after k calls of step(), k = 0 being the seed
GridAt(g, k) == IF k = 0 THEN heap[g][1] ELSE Generation(g, k)

\* array b is the generation the rule derives from array a
FollowsRule(a, b) ==
    /\ b.shape = a.shape
    /\ \A p \in Indices(a.shape) :
           b.data[p] = 1 <=>
               \/ a.data[p] = 1 /\ AliveNeighbours(a, p) = 9
               \/ a.data[p] = 0 /\ AliveNeighbours(a, p) = 4

\* C1: after one step() a cell is alive iff it was alive with exactly 9
\* neighbours or dead with exactly 4, every count taken in the grid the
\* step started from
C1_StepRule ==
    [][\A g \in Games :
          Fields(g)' # Fields(g) => FollowsRule(Grid(g), heap'[g][grid'[g]])]_vars

C1_Witness ==
    /\ Len(prev_generations[1]) = 2
    /\ \E p \in Indices(Grid(1).shape) :
           /\ GridAt(1, 0).data[p] = 1
           /\ AliveNeighbours(GridAt(1, 0), p) = 9
           /\ GridAt(1, 1).data[p] = 1
    /\ \E p \in Indices(Grid(1).shape) :
           /\ GridAt(1, 1).data[p] = 0
           /\ AliveNeighbours(GridAt(1, 1), p) = 4
           /\ GridAt(1, 2).data[p] = 1

\* C3: the history starts empty, every step() adds exactly one snapshot at
\* its end, and no step() removes, reorders or changes a snapshot already
\* recorded
C3_HistoryMonotone ==
    [][\A g \in Games :
          LET old == prev_generations[g]
              new == prev_generations'[g]
          IN  /\ Len(new) >= Len(old)
              /\ Fields(g)' # Fields(g) => Len(new) = Len(old) + 1
              /\ \A k \in 1 .. Len(old) :
                     new[k] = old[k] /\ heap'[g][new[k]] = heap[g][old[k]]]_vars

C3_Witness ==
    /\ Len(prev_generations[1]) = 2
    /\ Generation(1, 1) # Generation(1, 2)
    /\ \E p \in Indices(Grid(1).shape) : Generation(1, 2).data[p] = 1

\* C7: a game is never built from a grid with a zero dimension:
\* construction fails with InvalidDimensionError and no step() runs
C7_ZeroDimensionRejected ==
    \A g \in Games :
        (\E i \in 1 .. 3 : Grid(g).shape[i] = 0) =>
            /\ ret.op = "__init__"
            /\ ret.exc = "InvalidDimensionError"

C10_OldGridArchived ==
    [][\A g \in Games :
          Fields(g)' # Fields(g) =>
              \E k \in 1 .. Len(prev_generations'[g]) :
                  heap'[g][prev_generations'[g][k]] = Grid(g)]_vars

\* C10 as the code has it: a step() records the grid it computed, as the
\* last element of the history; the grid it replaced is the element before
\* it, unchanged, unless it is the seed, which is never recorded
C10_NewGridArchived ==
    [][\A g \in Games :
          Fields(g)' # Fields(g) =>
              LET old == prev_generations[g]
                  new == prev_generations'[g]
              IN  /\ Len(new) = Len(old) + 1
                  /\ new[Len(new)] = grid'[g]
                  /\ Len(old) >= 1 =>
                         /\ new[Len(old)] = grid[g]
                         /\ heap'[g][new[Len(old)]] = Grid(g)
                  /\ \A k \in 1 .. Len(new) : new[k] # 1
                  /\ heap'[g][1] = heap[g][1]]_vars

C10_Witness ==
    /\ Len(prev_generations[1]) = 2
    /\ grid[1] = prev_generations[1][2]
    /\ \A k \in 1 .. 2 : Generation(1, k) # GridAt(1, 0)
    /\ \E p \in Indices(Grid(1).shape) : Generation(1, 1).data[p] = 1

(* ----------------------------- colour map ------------------------------ *)

\* the colour stored for coordinate p before the k-th generation is shown
ColorBefore(k, p) ==
    IF k = 1 THEN <<Zero, Zero, Zero>> ELSE displayed[k - 1].color_map[p]

ColorAt(k, p) == displayed[k].color_map[p]

AliveAt(k, p) == displayed[k].generation.data[p] = 1

\* new is old less 0.1 up to the rounding of one float64 subtraction, or
\* the floor 0 when old is below 0.1
Decayed(old, new) ==
    IF old.tenths >= 1
    THEN /\ new.tenths = old.tenths - 1
         /\ new.ulps - old.ulps \in -4 .. 4
    ELSE new = Zero

ShownInOrder == \A k \in 1 .. Len(displayed) : displayed[k].generation = Generation(1, k)

Run(k, p, first) ==
    /\ k + 10 <= Len(displayed)
    /\ AliveAt(k, p) = first
    /\ \A j \in 1 .. 10 : AliveAt(k + j, p) = ~first

====
